---- MODULE Spec2Model ----
(***************************************************************************)
(* Model of src/src/validators/bank.ts: the Moroccan IBAN and RIB          *)
(* validators, the bank / SWIFT lookups and the amount-to-words converter. *)
(*                                                                         *)
(* A JavaScript string is a sequence of one-character strings.  A JS value *)
(* handed to a function is a record [t, s]: t is what typeof answers       *)
(* ("string", "number", "undefined", "object") and s the characters of a   *)
(* string.  A function body is an operator that yields an outcome          *)
(* [kind, val, code]: kind "return" with the returned value, or kind       *)
(* "throw" with the error code (a BankValidationError code, or "TypeError" *)
(* for the exception the runtime raises on a call of a missing method).    *)
(* The public function is the body under its try/catch.                    *)
(***************************************************************************)
EXTENDS Integers, Sequences, FiniteSets, TLC

VARIABLES
  pc,      \* "idle": no call in progress; "returned": a call has returned
  fn,      \* the public function called
  arg,     \* its first argument
  arg2,    \* its second argument (getSwiftCode's branch), else Undefined
  ret,     \* the value returned to the caller
  raised,  \* TRUE when an exception reached the caller instead
  log,     \* the error codes written to console.error during the call
  tieUp    \* madToWords: the way a tie of the cents rounding went in this call

vars == <<pc, fn, arg, arg2, ret, raised, log, tieUp>>

(***************************************************************************)
(* Characters and JS string primitives                                     *)
(***************************************************************************)
DigitChars == <<"0", "1", "2", "3", "4", "5", "6", "7", "8", "9">>

Digit == {DigitChars[i] : i \in 1..10}

\* /\d/.test(c)
IsDigit(c) == c \in Digit

\* parseInt of one decimal digit character
DigitVal(c) == (CHOOSE i \in 1..10 : DigitChars[i] = c) - 1

\* the characters of a digit list such as <<0, 1, 1>>
Chars(ds) == [i \in 1..Len(ds) |-> DigitChars[ds[i] + 1]]

\* /\s/ : the whitespace characters of the inputs
IsSpace(c) == c \in {" ", "\t"}

\* String.prototype.toUpperCase, on the letters the inputs are made of
UpperOf(c) ==
  CASE c = "m" -> "M"
    [] c = "a" -> "A"
    [] c = "x" -> "X"
    [] OTHER -> c

ToUpperCase(s) == [i \in 1..Len(s) |-> UpperOf(s[i])]

\* String.prototype.charCodeAt(0), on the upper-case letters of the inputs
CharCode(c) ==
  CASE c = "A" -> 65
    [] c = "F" -> 70
    [] c = "M" -> 77
    [] c = "R" -> 82
    [] c = "X" -> 88
    [] OTHER -> 0

\* s.replace(/\s/g, '')
RECURSIVE StripSpace(_)
StripSpace(s) ==
  IF s = <<>> THEN <<>>
  ELSE (IF IsSpace(Head(s)) THEN <<>> ELSE <<Head(s)>>) \o StripSpace(Tail(s))

\* s.replace(/[\s-]/g, '')
RECURSIVE StripSpaceHyphen(_)
StripSpaceHyphen(s) ==
  IF s = <<>> THEN <<>>
  ELSE (IF IsSpace(Head(s)) \/ Head(s) = "-" THEN <<>> ELSE <<Head(s)>>)
       \o StripSpaceHyphen(Tail(s))

Min(a, b) == IF a < b THEN a ELSE b
Max(a, b) == IF a > b THEN a ELSE b

\* s.substring(a, b) for 0 <= a <= b: the characters at 0-indexed a .. b-1,
\* both ends clamped to the length
Substring(s, a, b) == SubSeq(s, Min(a, Len(s)) + 1, Min(b, Len(s)))

\* s.slice(a) and s.slice(a, b); a negative index counts from the end
SliceIdx(s, i) == IF i < 0 THEN Max(Len(s) + i, 0) ELSE Min(i, Len(s))
Slice2(s, a, b) == SubSeq(s, SliceIdx(s, a) + 1, SliceIdx(s, b))
Slice1(s, a) == SubSeq(s, SliceIdx(s, a) + 1, Len(s))

\* s.startsWith(p)
StartsWith(s, p) == Len(s) >= Len(p) /\ SubSeq(s, 1, Len(p)) = p

(***************************************************************************)
(* Regular expressions: an anchored pattern ^c1 c2 ... cn$ is the sequence *)
(* of its character classes.                                               *)
(***************************************************************************)
RegexTest(pattern, s) ==
  /\ Len(s) = Len(pattern)
  /\ \A i \in 1..Len(s) : s[i] \in pattern[i]

Rep(class, n) == [i \in 1..n |-> class]

Lit(s) == [i \in 1..Len(s) |-> {s[i]}]

\* /^MA\d{26}$/
MaIbanPattern == Lit(<<"M", "A">>) \o Rep(Digit, 26)

(***************************************************************************)
(* JS values                                                               *)
(***************************************************************************)
Str(s) == [t |-> "string", s |-> s]
NonText == {[t |-> "number", s |-> <<>>], [t |-> "undefined", s |-> <<>>],
            [t |-> "object", s |-> <<>>]}

TypeOf(v) == v.t

Undefined == [t |-> "undefined", s |-> <<>>]

\* the boolean values true and false
Bool(b) == [t |-> "boolean", s |-> <<>>, b |-> b]
True == Bool(TRUE)
False == Bool(FALSE)

\* Number.prototype.toString() of a non-negative integer
RECURSIVE IntToChars(_)
IntToChars(n) ==
  IF n < 10 THEN <<DigitChars[n + 1]>>
  ELSE IntToChars(n \div 10) \o <<DigitChars[(n % 10) + 1]>>

(***************************************************************************)
(* Outcomes of a function body, and the try/catch at the function boundary *)
(***************************************************************************)
Return(v) == [kind |-> "return", val |-> v, code |-> "none"]

\* throw new BankValidationException(code, ...)
Throw(c) == [kind |-> "throw", val |-> Undefined, code |-> c]

\* the runtime's own exception: x.replace is not a function, ...
TypeError == [kind |-> "throw", val |-> Undefined, code |-> "TypeError"]

BankValidationError ==
  [INVALID_INPUT_TYPE |-> "BANK_001", INVALID_IBAN_FORMAT |-> "BANK_002",
   INVALID_BANK_CODE |-> "BANK_003", INVALID_IBAN_CHECKSUM |-> "BANK_004",
   INVALID_RIB_FORMAT |-> "BANK_005", INVALID_RIB_LENGTH |-> "BANK_006",
   INVALID_RIB_CHECKSUM |-> "BANK_007", BANK_NOT_FOUND |-> "BANK_008",
   INVALID_AMOUNT |-> "BANK_009", BRANCH_NOT_FOUND |-> "BANK_010"]

\* error instanceof BankValidationException
IsBankValidationException(o) ==
  o.code \in {BankValidationError[k] : k \in DOMAIN BankValidationError}

\* a variant whose catch handles BankValidationException and rethrows the rest
CatchBankErrorsOnly(o, onError) ==
  IF o.kind = "throw"
  THEN [raised |-> ~IsBankValidationException(o), val |-> onError,
        log |-> IF IsBankValidationException(o) THEN <<o.code>> ELSE <<>>]
  ELSE [raised |-> FALSE, val |-> o.val, log |-> <<>>]

\* try { body } catch (error) { if (instanceof) console.error(code); return onError }
\* The result: what the caller sees (a value, or an exception that escaped)
\* and the lines written to console.error.
TryCatch(o, onError) ==
  IF o.kind = "throw"
  THEN [raised |-> FALSE, val |-> onError,
        log |-> IF IsBankValidationException(o) THEN <<o.code>> ELSE <<>>]
  ELSE [raised |-> FALSE, val |-> o.val, log |-> <<>>]

(***************************************************************************)
(* The bank registry, MOROCCAN_BANKS of ../constants/banks: a read-only    *)
(* table of BankDetails records.  The table itself is not part of the      *)
(* validators' source; this one has the record shape the validators read   *)
(* (code, active, ibanRegex, ribLength, ribRegex, swift, optional          *)
(* branches) and one bank of each kind the validators distinguish.         *)
(***************************************************************************)
RibLength == 24

BankIbanPattern(code) == Lit(<<"M", "A">>) \o Rep(Digit, 2) \o Lit(code) \o Rep(Digit, 21)

BankRibPattern(code) == Lit(code) \o Rep(Digit, RibLength - 3)

Code007 == <<"0", "0", "7">>
Code011 == <<"0", "1", "1">>
Code013 == <<"0", "1", "3">>
Code021 == <<"0", "2", "1">>
Code999 == <<"9", "9", "9">>

\* a bank whose IBANs carry a locality digit 0-4 right after the bank code
Iban011Pattern ==
  Lit(<<"M", "A">>) \o Rep(Digit, 2) \o Lit(Code011)
    \o <<{"0", "1", "2", "3", "4"}>> \o Rep(Digit, 20)

MOROCCAN_BANKS ==
  << [code |-> Code007, active |-> TRUE, swift |-> "BCMAMAMC",
      ibanRegex |-> BankIbanPattern(Code007), ribLength |-> RibLength,
      ribRegex |-> BankRibPattern(Code007),
      hasBranches |-> TRUE,
      branches |-> << [code |-> <<"0", "0", "1">>, swift |-> "BCMAMAMC001"],
                      [code |-> <<"0", "0", "2">>, swift |-> "BCMAMAMC002"] >>],
     [code |-> Code011, active |-> TRUE, swift |-> "BMCEMAMC",
      ibanRegex |-> Iban011Pattern, ribLength |-> RibLength,
      ribRegex |-> BankRibPattern(Code011),
      hasBranches |-> FALSE, branches |-> <<>>],
     [code |-> Code013, active |-> FALSE, swift |-> "BMCIMAMC",
      ibanRegex |-> BankIbanPattern(Code013), ribLength |-> RibLength,
      ribRegex |-> BankRibPattern(Code013),
      hasBranches |-> TRUE,
      branches |-> << [code |-> <<"0", "0", "1">>, swift |-> "BMCIMAMC001"] >>],
     [code |-> Code021, active |-> TRUE, swift |-> "CDMAMAMC",
      ibanRegex |-> BankIbanPattern(Code021), ribLength |-> RibLength,
      ribRegex |-> BankRibPattern(Code021),
      hasBranches |-> TRUE, branches |-> <<>>] >>

\* a variant that does not look at the active flag
FindAnyBank(bankCode) ==
  LET hits == {i \in 1..Len(MOROCCAN_BANKS) : MOROCCAN_BANKS[i].code = bankCode}
  IN IF hits = {} THEN Undefined
     ELSE MOROCCAN_BANKS[CHOOSE i \in hits : \A j \in hits : i <= j]

\* MOROCCAN_BANKS.find(b => b.code === bankCode && b.active)
FindActiveBank(bankCode) ==
  LET hits == {i \in 1..Len(MOROCCAN_BANKS) :
                 MOROCCAN_BANKS[i].code = bankCode /\ MOROCCAN_BANKS[i].active}
  IN IF hits = {} THEN Undefined
     ELSE MOROCCAN_BANKS[CHOOSE i \in hits : \A j \in hits : i <= j]

(***************************************************************************)
(* isValidIBAN                                                             *)
(***************************************************************************)
Modulus == 97

\* a variant that checks the digits in their written order
RearrangedInPlace(cleanIBAN) == cleanIBAN

\* cleanIBAN.slice(4) + cleanIBAN.slice(0, 4)
Rearranged(cleanIBAN) == Slice1(cleanIBAN, 4) \o Slice2(cleanIBAN, 0, 4)

\* .split('').map(c => /\d/.test(c) ? c : (c.charCodeAt(0) - 55).toString()).join('')
RECURSIVE Numeric(_)
Numeric(s) ==
  IF s = <<>> THEN <<>>
  ELSE (IF IsDigit(Head(s)) THEN <<Head(s)>> ELSE IntToChars(CharCode(Head(s)) - 55))
       \o Numeric(Tail(s))

\* a variant whose loop stops one digit early (i < numeric.length - 1)
RECURSIVE Mod97LoopDropLast(_, _)
Mod97LoopDropLast(remainder, numeric) ==
  IF Len(numeric) <= 1 THEN remainder
  ELSE Mod97LoopDropLast((remainder * 10 + DigitVal(Head(numeric))) % Modulus,
                         Tail(numeric))

\* for (i...) remainder = (remainder * 10 + parseInt(numeric[i])) % 97
RECURSIVE Mod97Loop(_, _)
Mod97Loop(remainder, numeric) ==
  IF numeric = <<>> THEN remainder
  ELSE Mod97Loop((remainder * 10 + DigitVal(Head(numeric))) % Modulus, Tail(numeric))

IbanRemainder(cleanIBAN) == Mod97Loop(0, Numeric(Rearranged(cleanIBAN)))

ChecksumOk(remainder) == remainder = 1

isValidIBANBody(iban) ==
  IF TypeOf(iban) # "string" THEN Throw(BankValidationError.INVALID_INPUT_TYPE)
  ELSE
    LET cleanIBAN == ToUpperCase(StripSpace(iban.s)) IN
    IF ~RegexTest(MaIbanPattern, cleanIBAN)
    THEN Throw(BankValidationError.INVALID_IBAN_FORMAT)
    ELSE
      LET bankCode == Substring(cleanIBAN, 4, 7)
          bank == FindActiveBank(bankCode)
      IN
      IF bank = Undefined THEN Throw(BankValidationError.INVALID_BANK_CODE)
      ELSE IF ~RegexTest(bank.ibanRegex, cleanIBAN)
      THEN Throw(BankValidationError.INVALID_IBAN_FORMAT)
      ELSE IF ~ChecksumOk(IbanRemainder(cleanIBAN))
      THEN Throw(BankValidationError.INVALID_IBAN_CHECKSUM)
      ELSE Return(True)

isValidIBAN(iban) == TryCatch(isValidIBANBody(iban), False)



(***************************************************************************)
(* isValidRIB                                                              *)
(***************************************************************************)
\* the value NaN; every number the validators compute is >= 0
NaN == 0 - 1

\* the integer a string of decimal digits denotes
RECURSIVE DigitsValue(_, _)
DigitsValue(acc, s) ==
  IF s = <<>> THEN acc ELSE DigitsValue(acc * 10 + DigitVal(Head(s)), Tail(s))

RECURSIVE DigitPrefix(_)
DigitPrefix(s) ==
  IF s = <<>> \/ ~IsDigit(Head(s)) THEN <<>> ELSE <<Head(s)>> \o DigitPrefix(Tail(s))

\* parseInt(s, 10) of a string without sign or whitespace: the number its
\* leading digits denote, NaN when it starts with no digit
ParseInt(s) == IF DigitPrefix(s) = <<>> THEN NaN ELSE DigitsValue(0, DigitPrefix(s))

\* a variant that takes every chunk to be 7 digits wide
FixedWidthLength(n) == 7

\* the length of n.toString()
ToStringLength(n) == IF n = NaN THEN 3 ELSE Len(IntToChars(n))

RECURSIVE Pow10(_)
Pow10(k) == IF k = 0 THEN 1 ELSE 10 * Pow10(k - 1)

ChunkSize == 7

\* for (i = 0; i < payload.length; i += 7) chunks.push(parseInt(payload.slice(i, i + 7), 10))
RECURSIVE Chunks(_)
Chunks(payload) ==
  IF payload = <<>> THEN <<>>
  ELSE <<ParseInt(Slice2(payload, 0, ChunkSize))>> \o Chunks(Slice1(payload, ChunkSize))

\* remainder = (remainder * Math.pow(10, chunk.toString().length) + chunk) % 97
FoldStep(remainder, chunk) ==
  IF remainder = NaN \/ chunk = NaN THEN NaN
  ELSE (remainder * Pow10(ToStringLength(chunk)) + chunk) % Modulus

RECURSIVE FoldChunks(_, _)
FoldChunks(remainder, chunks) ==
  IF chunks = <<>> THEN remainder
  ELSE FoldChunks(FoldStep(remainder, Head(chunks)), Tail(chunks))

\* (97 - remainder) % 97
ExpectedKey(remainder) == IF remainder = NaN THEN NaN ELSE (Modulus - remainder) % Modulus

\* a !== b on numbers: NaN differs from everything, itself included
StrictNotEqual(a, b) == a = NaN \/ b = NaN \/ a # b

isValidRIBBody(rib) ==
  IF TypeOf(rib) # "string" THEN TypeError
  ELSE
    LET cleanRIB == StripSpaceHyphen(rib.s)
        bankCode == Substring(cleanRIB, 0, 3)
        bank == FindActiveBank(bankCode)
    IN
    IF bank = Undefined THEN Throw(BankValidationError.BANK_NOT_FOUND)
    ELSE IF Len(cleanRIB) # bank.ribLength
    THEN Throw(BankValidationError.INVALID_RIB_LENGTH)
    ELSE IF ~RegexTest(bank.ribRegex, cleanRIB)
    THEN Throw(BankValidationError.INVALID_RIB_FORMAT)
    ELSE
      LET payload == Slice2(cleanRIB, 0, 0 - 2)
          actualKey == ParseInt(Slice1(cleanRIB, 0 - 2))
          remainder == FoldChunks(0, Chunks(payload))
          expectedKey == ExpectedKey(remainder)
      IN
      IF StrictNotEqual(expectedKey, actualKey)
      THEN Throw(BankValidationError.INVALID_RIB_CHECKSUM)
      ELSE Return(True)

isValidRIB(rib) == TryCatch(isValidRIBBody(rib), False)

(***************************************************************************)
(* getBankDetails and getSwiftCode                                         *)
(***************************************************************************)
CountryPrefix == <<"M", "A">>

\* a variant that always reads the first 3 characters
ExtractLeadingCode(cleanCode) == Substring(cleanCode, 0, 3)

\* cleanCode.startsWith('MA') ? cleanCode.substring(4, 7) : cleanCode.substring(0, 3)
ExtractBankCode(cleanCode) ==
  IF StartsWith(cleanCode, CountryPrefix)
  THEN Substring(cleanCode, 4, 7)
  ELSE Substring(cleanCode, 0, 3)

getBankDetailsBody(code) ==
  IF TypeOf(code) # "string" THEN TypeError
  ELSE
    LET cleanCode == StripSpaceHyphen(code.s)
        bank == FindActiveBank(ExtractBankCode(cleanCode))
    IN
    IF bank = Undefined THEN Throw(BankValidationError.BANK_NOT_FOUND)
    ELSE Return(bank)

getBankDetails(code) == TryCatch(getBankDetailsBody(code), Undefined)

\* the truthiness of a branch argument: undefined and '' are falsy
Truthy(v) == v.t = "string" /\ v.s # <<>>

\* a variant that matches a branch whose code starts with the code asked for
FindBranchByPrefix(bank, branch) ==
  LET hits == {i \in 1..Len(bank.branches) :
                 branch.t = "string" /\ StartsWith(bank.branches[i].code, branch.s)}
  IN IF hits = {} THEN Undefined
     ELSE bank.branches[CHOOSE i \in hits : \A j \in hits : i <= j]

\* bank.branches.find(b => b.code === branch)
FindBranch(bank, branch) ==
  LET hits == {i \in 1..Len(bank.branches) : Str(bank.branches[i].code) = branch}
  IN IF hits = {} THEN Undefined
     ELSE bank.branches[CHOOSE i \in hits : \A j \in hits : i <= j]

\* if (branch && bank.branches)
BranchLookupApplies(bank, branch) == Truthy(branch) /\ bank.hasBranches

getSwiftCodeBody(bank, code, branch) ==
  IF bank = Undefined THEN Throw(BankValidationError.BANK_NOT_FOUND)
  ELSE IF BranchLookupApplies(bank, branch)
  THEN LET branchDetails == FindBranch(bank, branch) IN
       IF branchDetails = Undefined THEN Throw(BankValidationError.BRANCH_NOT_FOUND)
       ELSE Return(Str(<<branchDetails.swift>>))
  ELSE Return(Str(<<bank.swift>>))

\* the call of getBankDetails inside the try block: its console.error
\* lines come before getSwiftCode's own, and an exception out of it is
\* caught by getSwiftCode's catch
getSwiftCode(code, branch) ==
  LET inner == getBankDetails(code)
      outer == TryCatch(IF inner.raised THEN TypeError
                        ELSE getSwiftCodeBody(inner.val, code, branch), Undefined)
  IN [raised |-> outer.raised, val |-> outer.val, log |-> inner.log \o outer.log]


(***************************************************************************)
(* madToWords.  A text is the sequence of its words and of its separators, *)
(* each space and each hyphen on its own: "mille  dirhams" is              *)
(* <<"mille", " ", " ", "dirhams">> and "dix-sept" is <<"dix", "-", "sept">>. *)
(* A word holds neither a space nor a hyphen.                              *)
(***************************************************************************)
Space == " "
Hyphen == "-"
Separators == {Space, Hyphen}

\* string concatenation: the last word of a and the first word of b join
Concat(a, b) ==
  IF a = <<>> THEN b
  ELSE IF b = <<>> THEN a
  ELSE IF a[Len(a)] \notin Separators /\ b[1] \notin Separators
  THEN SubSeq(a, 1, Len(a) - 1) \o <<a[Len(a)] \o b[1]>> \o SubSeq(b, 2, Len(b))
  ELSE a \o b

a ++ b == Concat(a, b)

\* array[i] used in a string concatenation: an index past the end reads
\* undefined, which concatenates as the text "undefined"
At(array, i) == IF i + 1 \in DOMAIN array THEN array[i + 1] ELSE <<"undefined">>

units ==
  << <<>>, <<"un">>, <<"deux">>, <<"trois">>, <<"quatre">>, <<"cinq">>, <<"six">>,
     <<"sept">>, <<"huit">>, <<"neuf">> >>

teens ==
  << <<"dix">>, <<"onze">>, <<"douze">>, <<"treize">>, <<"quatorze">>, <<"quinze">>,
     <<"seize">>, <<"dix", Hyphen, "sept">>, <<"dix", Hyphen, "huit">>,
     <<"dix", Hyphen, "neuf">> >>

tens ==
  << <<>>, <<"dix">>, <<"vingt">>, <<"trente">>, <<"quarante">>, <<"cinquante">>,
     <<"soixante">>, <<"soixante", Hyphen, "dix">>, <<"quatre", Hyphen, "vingt">>,
     <<"quatre", Hyphen, "vingt", Hyphen, "dix">> >>

\* the branch for 80 <= n < 100
QuatreVingt(n) ==
  <<"quatre", Hyphen, "vingt">> ++ (IF n = 80 THEN <<>> ELSE <<Hyphen>> ++ At(units, n - 80))

\* the if / else-if chain on n < 100
BelowHundred(n) ==
  IF n >= 80 /\ n < 100 THEN QuatreVingt(n)
  ELSE IF n >= 20
  THEN At(tens, n \div 10) ++ (IF n % 10 > 0 THEN <<Hyphen>> ++ At(units, n % 10) ELSE <<>>)
  ELSE IF n >= 10 THEN At(teens, n - 10)
  ELSE IF n > 0 THEN At(units, n)
  ELSE <<>>

convertLessThanThousand(n) ==
  IF n >= 100
  THEN (IF n >= 200 THEN At(units, n \div 100) ++ <<Space>> ELSE <<>>) ++ <<"cent">>
         ++ (IF n % 100 > 0 THEN <<Space>> ELSE <<>>) ++ BelowHundred(n % 100)
  ELSE BelowHundred(n)

\* String.prototype.trim
RECURSIVE TrimStart(_)
TrimStart(s) == IF s # <<>> /\ Head(s) = Space THEN TrimStart(Tail(s)) ELSE s

RECURSIVE TrimEnd(_)
TrimEnd(s) ==
  IF s # <<>> /\ s[Len(s)] = Space THEN TrimEnd(SubSeq(s, 1, Len(s) - 1)) ELSE s

Trim(s) == TrimEnd(TrimStart(s))

\* A number is its sign and its magnitude in dirhams and thousandths:
\* (-1)^neg * (whole + milli / 1000), or NaN.
Num(neg, whole, milli) ==
  [t |-> "number", s |-> <<>>, nan |-> FALSE, neg |-> neg, whole |-> whole, milli |-> milli]

NaNValue == [t |-> "number", s |-> <<>>, nan |-> TRUE, neg |-> FALSE, whole |-> 0, milli |-> 0]

\* amount === 0 (0 and -0)
IsZero(amount) == amount.whole = 0 /\ amount.milli = 0

\* Math.floor(Math.abs(amount))
WholeOf(amount) == amount.whole

\* Math.round((amount - whole) * 100).  A fraction of d.ddd is d.ddd * 100
\* = ddd / 10 up to the rounding error of the doubles; on a tie (thousandths
\* ending in 5) the product falls on either side of .5 (1.995 gives 100,
\* 1.005 gives 0), so the tie goes the way roundsUp says.
CentsOf(amount, roundsUp) ==
  IF amount.milli % 10 = 5
  THEN amount.milli \div 10 + (IF roundsUp THEN 1 ELSE 0)
  ELSE (amount.milli + 5) \div 10

\* the block under if (whole > 0)
WholeWords(whole) ==
  LET millions == whole \div 1000000
      thousands == (whole % 1000000) \div 1000
      remainder == whole % 1000
  IN (IF millions > 0
      THEN convertLessThanThousand(millions) ++ <<Space, "million">>
             ++ (IF millions > 1 THEN <<"s", Space>> ELSE <<Space>>)
      ELSE <<>>)
     ++ (IF thousands > 0
         THEN (IF thousands = 1 THEN <<"mille", Space>>
               ELSE convertLessThanThousand(thousands) ++ <<Space, "mille", Space>>)
         ELSE <<>>)
     ++ (IF remainder > 0 THEN convertLessThanThousand(remainder) ELSE <<>>)
     ++ <<Space, "dirham">> ++ (IF whole # 1 THEN <<"s">> ELSE <<>>)

\* the block under if (cents > 0)
CentsWords(whole, cents) ==
  (IF whole > 0 THEN <<Space, "et", Space>> ELSE <<>>)
    ++ convertLessThanThousand(cents) ++ <<Space, "centime">>
    ++ (IF cents # 1 THEN <<"s">> ELSE <<>>)

madToWordsBody(amount, roundsUp) ==
  IF TypeOf(amount) # "number" \/ amount.nan
  THEN Throw(BankValidationError.INVALID_AMOUNT)
  ELSE IF IsZero(amount) THEN Return(Str(<<"zéro", Space, "dirhams">>))
  ELSE
    LET whole == WholeOf(amount)
        cents == CentsOf(amount, roundsUp)
        result == (IF whole > 0 THEN WholeWords(whole) ELSE <<>>)
                    ++ (IF cents > 0 THEN CentsWords(whole, cents) ELSE <<>>)
    IN Return(Str((IF amount.neg THEN <<"moins", Space>> ELSE <<>>) ++ Trim(result)))

madToWords(amount, roundsUp) ==
  TryCatch(madToWordsBody(amount, roundsUp), Str(<<"erreur", Space, "de", Space, "conversion">>))

(***************************************************************************)
(* Inputs of the calls                                                     *)
(***************************************************************************)
\* how many of the account tails below the inputs are built from
NumTails == 2

\* the 21 digits that follow the bank code in an IBAN (locality, account, key)
AccountTails ==
  << Chars(<<4, 5, 0, 0, 0, 0, 0, 1, 2, 3, 4, 5, 6, 7, 8, 9, 0, 1, 2, 3, 4>>),
     Chars(<<8, 1, 0, 0, 0, 0, 0, 0, 0, 0, 0, 0, 0, 0, 0, 0, 0, 0, 0, 7, 7>>),
     Chars(<<0, 0, 0, 0, 0, 0, 0, 0, 0, 0, 0, 0, 0, 0, 0, 0, 0, 0, 0, 0, 0>>),
     Chars(<<9, 9, 9, 9, 9, 9, 9, 9, 9, 9, 9, 9, 9, 9, 9, 9, 9, 9, 9, 9, 9>>) >>

Tails == {AccountTails[i] : i \in 1..Min(NumTails, Len(AccountTails))}

BankCodesTried == {Code007, Code011, Code013, Code021, Code999}

\* MA, two check digits, a bank code, an account tail: 28 characters
IbanCores ==
  {<<"M", "A", c1, c2>> \o b \o tl : c1 \in Digit, c2 \in Digit,
                                      b \in BankCodesTried, tl \in Tails}

\* a space after every group of 4 characters
RECURSIVE Grouped(_)
Grouped(s) ==
  IF Len(s) <= 4 THEN s ELSE SubSeq(s, 1, 4) \o <<" ">> \o Grouped(SubSeq(s, 5, Len(s)))

IbanStyles ==
  {"plain", "lower", "mixed", "grouped", "hyphen", "short", "long", "letter", "foreign"}

Styled(core, style) ==
  CASE style = "plain" -> core
    [] style = "lower" -> <<"m", "a">> \o SubSeq(core, 3, Len(core))
    [] style = "mixed" -> <<"M", "a", " ">> \o SubSeq(core, 3, Len(core)) \o <<"\t">>
    [] style = "grouped" -> Grouped(core)
    [] style = "hyphen" -> SubSeq(core, 1, 4) \o <<"-">> \o SubSeq(core, 5, Len(core))
    [] style = "short" -> SubSeq(core, 1, Len(core) - 1)
    [] style = "long" -> core \o <<"0">>
    [] style = "letter" -> SubSeq(core, 1, Len(core) - 1) \o <<"x">>
    [] style = "foreign" -> <<"F", "R">> \o SubSeq(core, 3, Len(core))

IbanInputs ==
  {Str(Styled(core, style)) : core \in IbanCores, style \in IbanStyles}
    \cup {Str(<<>>)} \cup NonText


\* a RIB: a bank code, 19 digits of locality and account, a 2-digit key
RibCores ==
  {b \o SubSeq(tl, 1, 19) \o <<k1, k2>> : b \in BankCodesTried, tl \in Tails,
                                           k1 \in Digit, k2 \in Digit}

RibStyles == {"plain", "dashed", "short", "long", "letter"}

RibStyled(core, style) ==
  CASE style = "plain" -> core
    [] style = "dashed" -> SubSeq(core, 1, 3) \o <<" ">> \o SubSeq(core, 4, 6) \o <<"-">>
                             \o SubSeq(core, 7, 22) \o <<"-">> \o SubSeq(core, 23, 24)
    [] style = "short" -> SubSeq(core, 1, Len(core) - 1)
    [] style = "long" -> core \o <<"0">>
    [] style = "letter" -> SubSeq(core, 1, 10) \o <<"x">> \o SubSeq(core, 12, Len(core))

RibInputs ==
  {Str(RibStyled(core, style)) : core \in RibCores, style \in RibStyles}
    \cup {Str(<<>>)} \cup NonText

\* the check digits of the IBANs handed to the lookups
LookupCheckDigits == {<<"0", "7">>, <<"8", "3">>, <<"1", "1">>}

\* bank codes alone, whole RIBs and whole IBANs
LookupInputs ==
  {Str(b) : b \in BankCodesTried}
    \cup {Str(<<b[1], " ", b[2], "-", b[3]>>) : b \in BankCodesTried}
    \cup {Str(SubSeq(b, 1, 2)) : b \in BankCodesTried}
    \cup {Str(b \o SubSeq(tl, 1, 19) \o <<"0", "0">>) : b \in BankCodesTried, tl \in Tails}
    \cup {Str(Styled(<<"M", "A">> \o c \o b \o tl, style)) :
            c \in LookupCheckDigits, b \in BankCodesTried, tl \in Tails,
            style \in IbanStyles}
    \cup {Str(<<>>), Str(<<"M", "A">>), Str(<<"M", "A", "0", "0", "0">>)} \cup NonText

BranchInputs ==
  {Undefined, Str(<<>>), Str(Chars(<<0, 0, 1>>)), Str(Chars(<<0, 0, 2>>)),
   Str(Chars(<<0, 0>>)), Str(Chars(<<9, 9, 9>>))}


\* every whole amount up to this one is converted
MaxPlainWhole == 999

\* amounts whose thousands and millions groups matter
LargeWholes ==
  {1000, 1001, 1234, 2000, 21000, 80000, 100000, 999999, 1000000, 1000001,
   1001000, 1200000, 2000000, 2000001}

\* the whole parts that are combined with every fraction in thousandths
FractionWholes == {0, 1, 45}

AmountInputs ==
  {Num(neg, w, 0) : neg \in BOOLEAN, w \in 0..MaxPlainWhole}
    \cup {Num(neg, w, m) : neg \in BOOLEAN, w \in LargeWholes, m \in {0, 1, 500, 995, 999}}
    \cup {Num(neg, w, m) : neg \in BOOLEAN, w \in FractionWholes, m \in 0..999}
    \cup {NaNValue} \cup {Str(<<"1", "2">>), Undefined, [t |-> "object", s |-> <<>>]}

\* the ways the rounding of the cents of this amount can go
RoundingsOf(amount) ==
  IF TypeOf(amount) = "number" /\ amount.milli % 10 = 5 THEN BOOLEAN ELSE {TRUE}

(***************************************************************************)
(* The state machine: a caller calls one public function at a time; the    *)
(* library keeps no state between calls.                                   *)
(***************************************************************************)
Init ==
  /\ pc = "idle"
  /\ fn = "none"
  /\ arg = Undefined
  /\ arg2 = Undefined
  /\ ret = Undefined
  /\ raised = FALSE
  /\ log = <<>>
  /\ tieUp = TRUE

Returned(name, a, b, r, up) ==
  /\ pc' = "returned"
  /\ tieUp' = up
  /\ fn' = name
  /\ arg' = a
  /\ arg2' = b
  /\ ret' = r.val
  /\ raised' = r.raised
  /\ log' = r.log

CallIsValidIBAN ==
  /\ pc = "idle"
  /\ \E iban \in IbanInputs : Returned("isValidIBAN", iban, Undefined, isValidIBAN(iban), TRUE)

CallIsValidRIB ==
  /\ pc = "idle"
  /\ \E rib \in RibInputs : Returned("isValidRIB", rib, Undefined, isValidRIB(rib), TRUE)

CallGetBankDetails ==
  /\ pc = "idle"
  /\ \E code \in LookupInputs :
       Returned("getBankDetails", code, Undefined, getBankDetails(code), TRUE)

CallGetSwiftCode ==
  /\ pc = "idle"
  /\ \E code \in LookupInputs, branch \in BranchInputs :
       Returned("getSwiftCode", code, branch, getSwiftCode(code, branch), TRUE)

CallMadToWords ==
  /\ pc = "idle"
  /\ \E amount \in AmountInputs :
       \E roundsUp \in RoundingsOf(amount) :
         Returned("madToWords", amount, Undefined, madToWords(amount, roundsUp), roundsUp)

\* the caller has taken the result; nothing of the call remains
Resume ==
  /\ pc = "returned"
  /\ pc' = "idle"
  /\ fn' = "none"
  /\ arg' = Undefined
  /\ arg2' = Undefined
  /\ ret' = Undefined
  /\ raised' = FALSE
  /\ log' = <<>>
  /\ tieUp' = TRUE

Next ==
  \/ CallIsValidIBAN
  \/ CallIsValidRIB
  \/ CallGetBankDetails
  \/ CallGetSwiftCode
  \/ CallMadToWords
  \/ Resume

Spec == Init /\ [][Next]_vars

(***************************************************************************)
(* What the claims are stated with                                         *)
(***************************************************************************)
IsText(v) == v.t = "string"

ActiveBanks == {MOROCCAN_BANKS[i] : i \in {j \in 1..Len(MOROCCAN_BANKS) : MOROCCAN_BANKS[j].active}}

Alphabet ==
  <<"A", "B", "C", "D", "E", "F", "G", "H", "I", "J", "K", "L", "M",
    "N", "O", "P", "Q", "R", "S", "T", "U", "V", "W", "X", "Y", "Z">>

\* A = 10 ... Z = 35, a digit its own value
CharValue(c) ==
  IF c \in Digit THEN DigitVal(c)
  ELSE 9 + (CHOOSE i \in 1..Len(Alphabet) : Alphabet[i] = c)

\* The decimal number written by the values of the characters of s, reduced
\* modulo 97 as a whole: the sum of value * 10^(digits to its right), taken
\* from the last character backwards.
RECURSIVE NumberMod97(_, _)
NumberMod97(s, weight) ==
  IF s = <<>> THEN 0
  ELSE LET v == CharValue(s[Len(s)])
           width == IF v >= 10 THEN 100 ELSE 10
       IN (v * weight + NumberMod97(SubSeq(s, 1, Len(s) - 1), (weight * width) % 97)) % 97

\* the first 4 characters moved to the end
MovedToEnd(n) == SubSeq(n, 5, Len(n)) \o SubSeq(n, 1, 4)

IsMaPlus26Digits(n) ==
  /\ Len(n) = 28
  /\ n[1] = "M" /\ n[2] = "A"
  /\ \A i \in 3..28 : n[i] \in Digit

NormalizedIban(s) == ToUpperCase(StripSpace(s))

IbanAcceptable(v) ==
  /\ IsText(v)
  /\ LET n == NormalizedIban(v.s) IN
       /\ IsMaPlus26Digits(n)
       /\ \E b \in ActiveBanks : b.code = <<n[5], n[6], n[7]>> /\ RegexTest(b.ibanRegex, n)
       /\ NumberMod97(MovedToEnd(n), 1) = 1

\* C1: isValidIBAN returns true exactly when the input, whitespace removed
\* and upper-cased, is MA + 26 digits, carries at positions 4-6 the code of
\* an active bank, matches that bank's pattern and has its rearranged
\* number congruent to 1 modulo 97; the digit-by-digit remainder equals the
\* remainder of the whole number; in every other case it returns false.
C1_IbanAcceptedExactly ==
  (pc = "returned" /\ fn = "isValidIBAN") =>
    /\ ~raised
    /\ ret = Bool(IbanAcceptable(arg))
    /\ (IsText(arg) /\ IsMaPlus26Digits(NormalizedIban(arg.s))) =>
         IbanRemainder(NormalizedIban(arg.s)) = NumberMod97(MovedToEnd(NormalizedIban(arg.s)), 1)

\* an IBAN written in mixed case with whitespace is accepted
C1_Witness ==
  /\ pc = "returned" /\ fn = "isValidIBAN" /\ ret = True
  /\ IsText(arg) /\ Len(arg.s) > 28 /\ arg.s[2] = "a"

\* the number of decimal digits of n
RECURSIVE DigitCount(_)
DigitCount(n) == IF n < 10 THEN 1 ELSE 1 + DigitCount(n \div 10)

\* the integer written by the digits of s, from the last digit backwards
RECURSIVE Written(_)
Written(s) ==
  IF s = <<>> THEN 0 ELSE DigitVal(s[Len(s)]) + 10 * Written(SubSeq(s, 1, Len(s) - 1))

\* r = (r * 10^digitCount(chunk) + chunk) mod 97 over the chunks of at most
\* 7 characters, starting at the chunk that begins at character from
RECURSIVE ChunkFold(_, _, _)
ChunkFold(r, payload, from) ==
  IF from > Len(payload) THEN r
  ELSE LET chunk == Written(SubSeq(payload, from, Min(from + 6, Len(payload))))
       IN ChunkFold((r * Pow10(DigitCount(chunk)) + chunk) % 97, payload, from + 7)

RibKeyOf(payload) == (97 - ChunkFold(0, payload, 1)) % 97

RibAcceptable(v) ==
  /\ IsText(v)
  /\ LET c == StripSpaceHyphen(v.s) IN
       /\ Len(c) >= 3
       /\ \E b \in ActiveBanks :
            /\ b.code = SubSeq(c, 1, 3)
            /\ Len(c) = b.ribLength
            /\ RegexTest(b.ribRegex, c)
            /\ Written(SubSeq(c, Len(c) - 1, Len(c))) = RibKeyOf(SubSeq(c, 1, Len(c) - 2))

\* the RIB with its last 2 characters replaced
WithKey(c, k1, k2) == SubSeq(c, 1, Len(c) - 2) \o <<k1, k2>>

\* C2: isValidRIB returns true exactly when the input, whitespace and
\* hyphens removed, starts with the code of an active bank, has that bank's
\* length, matches its pattern and ends in the key (97 - r) mod 97 of the
\* chunked fold of its payload; an accepted RIB with its key changed to any
\* other 2-digit value is rejected.
C2_RibAcceptedExactly ==
  (pc = "returned" /\ fn = "isValidRIB") =>
    /\ ~raised
    /\ ret = Bool(RibAcceptable(arg))
    /\ ret = True =>
         LET c == StripSpaceHyphen(arg.s) IN
           \A k1 \in Digit, k2 \in Digit :
             <<k1, k2>> # SubSeq(c, Len(c) - 1, Len(c)) =>
               isValidRIB(Str(WithKey(c, k1, k2))).val = False

\* a RIB written with a space and hyphens, whose second chunk 0001234 has
\* leading zeros, is accepted
C2_Witness ==
  /\ pc = "returned" /\ fn = "isValidRIB" /\ ret = True
  /\ Len(arg.s) > 24
  /\ SubSeq(StripSpaceHyphen(arg.s), 8, 10) = <<"0", "0", "0">>

ConversionError == Str(<<"erreur", Space, "de", Space, "conversion">>)

\* the value a function returns on failure
FailureValue(f) ==
  CASE f \in {"isValidIBAN", "isValidRIB"} -> False
    [] f \in {"getBankDetails", "getSwiftCode"} -> Undefined
    [] f = "madToWords" -> ConversionError

\* not text, empty, or of a length no identifier has
Malformed(f, v) ==
  \/ ~IsText(v)
  \/ v.s = <<>>
  \/ f = "isValidIBAN" /\ Len(StripSpace(v.s)) # 28
  \/ f = "isValidRIB" /\ Len(StripSpaceHyphen(v.s)) # 24

DigitPositions(s) == {i \in 1..Len(s) : s[i] \in Digit}

\* C4: an accepted IBAN with any single one of its 26 digits replaced by a
\* different digit is rejected.
C4_SingleDigitSensitivity ==
  (pc = "returned" /\ fn = "isValidIBAN" /\ ret = True) =>
    /\ Cardinality(DigitPositions(arg.s)) = 26
    /\ \A i \in DigitPositions(arg.s) :
         \A d \in Digit \ {arg.s[i]} :
           isValidIBAN(Str([arg.s EXCEPT ![i] = d])).val = False

\* an IBAN of bank 021 is accepted (021 with its middle digit replaced is
\* 011, another active bank)
C4_Witness ==
  /\ pc = "returned" /\ fn = "isValidIBAN" /\ ret = True
  /\ SubSeq(NormalizedIban(arg.s), 5, 7) = Code021

\* the bank code an input carries: at positions 4-6 when the input, with
\* whitespace and hyphens removed, starts with MA, else its first 3 characters
CarriedCode(s) ==
  LET c == StripSpaceHyphen(s)
      first == IF Len(c) >= 2 /\ c[1] = "M" /\ c[2] = "A" THEN 5 ELSE 1
  IN [i \in 1..Max(0, Min(3, Len(c) - first + 1)) |-> c[first + i - 1]]

\* C5: getBankDetails returns undefined when the carried code is unknown or
\* of an inactive bank, and the registry record of that code when it is the
\* code of an active bank, given alone or inside an IBAN; a returned record
\* is active and has the carried code.
C5_BankResolved ==
  (pc = "returned" /\ fn = "getBankDetails") =>
    /\ ~raised
    /\ IF IsText(arg) /\ (\E b \in ActiveBanks : b.code = CarriedCode(arg.s))
       THEN /\ ret \in ActiveBanks
            /\ ret.active
            /\ ret.code = CarriedCode(arg.s)
       ELSE ret = Undefined

\* a bank was resolved from an IBAN written with a hyphen
C5_Witness ==
  /\ pc = "returned" /\ fn = "getBankDetails" /\ ret # Undefined
  /\ IsText(arg) /\ Len(arg.s) = 29 /\ arg.s[5] = "-" /\ arg.s[1] = "M"

\* the bank getBankDetails resolves the call's code to
ResolvedBank == getBankDetails(arg).val

KnownBranches(bank) ==
  IF bank.hasBranches THEN {bank.branches[i] : i \in 1..Len(bank.branches)} ELSE {}

\* a branch code was handed over
BranchSupplied(b) == IsText(b) /\ b.s # <<>>

\* C6, as stated: for a code that resolves to a bank, getSwiftCode returns
\* the SWIFT of the branch whose code equals the branch code supplied, the
\* bank's SWIFT when no branch is supplied, and undefined when the branch
\* code supplied matches no known branch of the bank, a bank without a
\* branch list or with an empty one included; it returns undefined when the
\* code resolves to no bank.
C6_SwiftAsStated ==
  (pc = "returned" /\ fn = "getSwiftCode") =>
    IF ResolvedBank = Undefined THEN ret = Undefined
    ELSE /\ \A br \in KnownBranches(ResolvedBank) :
              arg2 = Str(br.code) => ret = Str(<<br.swift>>)
         /\ arg2 = Undefined => ret = Str(<<ResolvedBank.swift>>)
         /\ (BranchSupplied(arg2)
               /\ \A br \in KnownBranches(ResolvedBank) : arg2 # Str(br.code)) =>
              ret = Undefined

\* C6, amended: undefined is returned for an unmatched branch code only when
\* the bank has a branch list (an empty one included); for a bank without a
\* branch list, as for an omitted or empty branch code, the bank's SWIFT is
\* returned.
C6_SwiftAmended ==
  (pc = "returned" /\ fn = "getSwiftCode") =>
    /\ ~raised
    /\ IF ResolvedBank = Undefined THEN ret = Undefined
       ELSE IF BranchSupplied(arg2) /\ ResolvedBank.hasBranches
       THEN IF \E br \in KnownBranches(ResolvedBank) : arg2 = Str(br.code)
            THEN \A br \in KnownBranches(ResolvedBank) :
                   arg2 = Str(br.code) => ret = Str(<<br.swift>>)
            ELSE ret = Undefined
       ELSE ret = Str(<<ResolvedBank.swift>>)

\* a branch code was supplied for a bank without a branch list, and the
\* bank's SWIFT came back
C6_Witness ==
  /\ pc = "returned" /\ fn = "getSwiftCode"
  /\ ResolvedBank # Undefined /\ ~ResolvedBank.hasBranches
  /\ BranchSupplied(arg2)
  /\ ret = Str(<<ResolvedBank.swift>>)

IsFiniteNumber(v) == TypeOf(v) = "number" /\ ~v.nan

Tokens(text) == {text[i] : i \in 1..Len(text)}

\* the French word of n in 70..99
FrenchIrregular(n) ==
  IF n < 80 THEN <<"soixante", Hyphen>> ++ teens[n - 70 + 1]
  ELSE IF n = 80 THEN <<"quatre", Hyphen, "vingt">>
  ELSE IF n < 90 THEN <<"quatre", Hyphen, "vingt", Hyphen>> ++ units[n - 80 + 1]
  ELSE <<"quatre", Hyphen, "vingt", Hyphen>> ++ teens[n - 90 + 1]

\* C7: a group n of 70..99 is worded soixante-<teen of n-60>, quatre-vingt,
\* quatre-vingt-<unit of n-80> or quatre-vingt-<teen of n-80>, and no group
\* of 1..999 is worded with a missing (undefined) word.  Stated on the
\* amounts of n whole dirhams, which are worded by the group converter alone.
C7_FrenchIrregulars ==
  (pc = "returned" /\ fn = "madToWords" /\ IsFiniteNumber(arg)
     /\ ~arg.neg /\ arg.milli = 0 /\ arg.whole \in 1..999) =>
    /\ "undefined" \notin Tokens(ret.s)
    /\ arg.whole \in 70..99 => ret.s = FrenchIrregular(arg.whole) ++ <<Space, "dirhams">>

\* the amount in cents, rounded to the nearest cent the way the call rounded
NearestCents(amount, roundsUp) ==
  (amount.whole * 1000 + amount.milli
     + (IF amount.milli % 10 = 5 /\ ~roundsUp THEN 4 ELSE 5)) \div 10

EndsWith(s, e) == Len(s) >= Len(e) /\ SubSeq(s, Len(s) - Len(e) + 1, Len(s)) = e

\* C8: the cents part of every finite amount is an integer of 0..99, whole
\* * 100 + cents is the amount rounded to the nearest cent, and a fraction
\* that rounds up to a full dirham is never worded as 100 centimes.
C8_CentsBelowHundred ==
  (pc = "returned" /\ fn = "madToWords" /\ IsFiniteNumber(arg)) =>
    /\ CentsOf(arg, tieUp) \in 0..99
    /\ WholeOf(arg) * 100 + CentsOf(arg, tieUp) = NearestCents(arg, tieUp)
    /\ ~EndsWith(ret.s, <<"cent", Space, "centimes">>)

\* C9: the words of every finite non-zero amount are not empty, neither
\* start nor end with whitespace, and have exactly one space between words.
C9_SingleSpaces ==
  (pc = "returned" /\ fn = "madToWords" /\ IsFiniteNumber(arg) /\ ~IsZero(arg)) =>
    /\ ret.s # <<>>
    /\ ret.s[1] # Space
    /\ ret.s[Len(ret.s)] # Space
    /\ \A i \in 1..(Len(ret.s) - 1) : ~(ret.s[i] = Space /\ ret.s[i + 1] = Space)

\* the active bank whose code stands at positions 4-6 of the normalized IBAN
BankOfIban(v) ==
  CHOOSE b \in ActiveBanks : b.code = SubSeq(NormalizedIban(v.s), 5, 7)

AgreesWithLookups(v) ==
  /\ getBankDetails(v).val = BankOfIban(v)
  /\ getSwiftCode(v, Undefined).val = Str(<<BankOfIban(v).swift>>)

\* C10, as stated: on every input isValidIBAN accepts, in any letter case,
\* getBankDetails returns the active bank whose code stands at positions
\* 4-6 of the normalized IBAN and getSwiftCode returns that bank's SWIFT.
C10_AgreeAsStated ==
  (pc = "returned" /\ fn = "isValidIBAN" /\ ret = True) => AgreesWithLookups(arg)

\* the country prefix is written MA, in upper case
UpperCasePrefix(v) == SubSeq(StripSpace(v.s), 1, 2) = <<"M", "A">>

\* C10, amended: the lookups agree with isValidIBAN on the accepted inputs
\* whose country prefix is written in upper case; they do not upper-case
\* their input.
C10_AgreeOnUpperCase ==
  (pc = "returned" /\ fn = "isValidIBAN" /\ ret = True /\ UpperCasePrefix(arg)) =>
    AgreesWithLookups(arg)

\* an IBAN written MA.. in groups of 4 was accepted
C10_Witness ==
  /\ pc = "returned" /\ fn = "isValidIBAN" /\ ret = True
  /\ UpperCasePrefix(arg) /\ Len(arg.s) > 28
  /\ getBankDetails(arg).val # Undefined

====
